---- MODULE Spec2Model ----
(***************************************************************************)
(* Cart -> Order -> Payment core of the online-cinema backend.             *)
(*                                                                         *)
(* The state is the relational database (one variable per table), the      *)
(* requests that are suspended between two commits, and the set of         *)
(* processor events that were handled so far.  Every ORM statement is read *)
(* as the rows it selects, inserts, updates or deletes; a commit persists  *)
(* the objects that were added to the session (db.add, db.add_all) and the *)
(* changes made to loaded objects, nothing else.  An exception ends the    *)
(* handler; what was committed before it stays committed.  The response of *)
(* a handler is a function of the state it runs in (the ...Result          *)
(* operators); a request that fails before its first write leaves the      *)
(* state as it is.                                                         *)
(*                                                                         *)
(* Mapped classes are read as table declarations (columns, unique          *)
(* constraints, ON DELETE CASCADE).  A foreign key without ON DELETE does  *)
(* not stop delete_movie in the model: stripe_checkout_session itself      *)
(* expects order items whose movie is gone.                                *)
(***************************************************************************)
EXTENDS Integers, FiniteSets, Sequences, TLC

\* ------------------------------------------------------------------ bounds
MaxOrders == 2

Users    == {1, 2}
Movies   == {1, 2}
Prices   == {1, 2}
Slots    == {1, 2}
OrderIds == 1..MaxOrders

\* user_profile.user.user_group.name of each user
UserGroup == [u \in Users |-> IF u = 1 THEN "USER" ELSE "ADMIN"]

chk_cmpltd == "checkout.session.completed"
pmt_faild  == "payment_intent.payment_failed"
rfnded     == "charge.refunded"

\* The events the processor may deliver: event["id"], event["type"] and the
\* metadata of the session (user_profile_id, order_id, total_amount).  An
\* event id always comes with the same content.
Events ==
    [evt_1 |-> [type |-> chk_cmpltd, user |-> 1, order |-> 1, amount |-> 1],
     evt_2 |-> [type |-> rfnded,     user |-> 1, order |-> 1, amount |-> 1],
     evt_3 |-> [type |-> chk_cmpltd, user |-> 1, order |-> 2, amount |-> 1],
     evt_4 |-> [type |-> chk_cmpltd, user |-> 1, order |-> 1, amount |-> 1],
     evt_5 |-> [type |-> pmt_faild,  user |-> 1, order |-> 2, amount |-> 1],
     evt_6 |-> [type |-> "customer.created", user |-> 1, order |-> 1, amount |-> 1]]

EventIds == DOMAIN Events

VARIABLES
    catalog,      \* movies: [existing movie id -> price]
    carts,        \* carts: the user_profile_id of every Cart row
    cartItems,    \* cart_items: [<<cart, movie>> -> number of rows]
    orders,       \* orders: [existing order id -> [user, status, total]]
    nextOrderId,  \* autoincrement of orders.id
    orderItems,   \* order_items: set of [id, order, movie, price]
    nextItemId,   \* autoincrement of order_items.id
    payments,     \* payments: set of [id, user, order, status, amount, ext]
    paymentItems, \* payment_items: set of [payment, item, price]
    processed,    \* ids of the events a handler has committed for (payment.py:91)
    inflight      \* [slot -> request suspended between two commits]

vars == <<catalog, carts, cartItems, orders, nextOrderId, orderItems,
          nextItemId, payments, paymentItems, processed, inflight>>

Idle == [kind |-> "idle"]

RECURSIVE SumPrice(_)
\* sum(...) of Python, func.sum(...) of SQL, over rows with a price
SumPrice(S) ==
    IF S = {} THEN 0
    ELSE LET x == CHOOSE y \in S : TRUE
         IN  x.price + SumPrice(S \ {x})

\* ---------------------------------------------------------------- queries
CartMovies(c) == {m \in Movies : cartItems[<<c, m>>] > 0}

CartRows(c) == UNION {{m} \X (1..cartItems[<<c, m>>]) : m \in Movies}

ItemsOf(o) == {i \in orderItems : i.order = o}

SuccessfulOrders == {p.order : p \in {q \in payments : q.status = "SUCCESSFUL"}}

PurchasedMovieIds(u, c) ==
    IF CartMovies(c) = {} THEN {}
    ELSE {i.movie : i \in {j \in orderItems :
              /\ j.order \in DOMAIN orders
              /\ orders[j.order].user = u
              /\ orders[j.order].status = "PAID"
              /\ \E p \in payments : /\ p.order = j.order
                                     /\ p.user = u
                                     /\ p.status = "SUCCESSFUL"}}

PaidByOrder(u) ==
    {i.movie : i \in {j \in orderItems :
        /\ j.order \in DOMAIN orders
        /\ orders[j.order].user = u
        /\ orders[j.order].status = "PAID"}}

PaidByPayment ==
    {i.movie : i \in {j \in orderItems : j.order \in SuccessfulOrders}}

\* ------------------------------------------------------------------- Init
Init ==
    /\ catalog = [m \in Movies |-> 1]
    /\ carts = {}
    /\ cartItems = [cm \in Users \X Movies |-> 0]
    /\ orders = <<>>
    /\ nextOrderId = 1
    /\ orderItems = {}
    /\ nextItemId = 1
    /\ payments = {}
    /\ paymentItems = {}
    /\ processed = {}
    /\ inflight = [s \in Slots |-> Idle]

FreeSlot(s) == inflight[s] = Idle /\ \A t \in Slots : t < s => inflight[t] # Idle

\* ------------------------------------------------------------ Cart Manager
\* cart.py:38-48, the cart the request works on (0: None)
ResolvedCart(u, target) ==
    IF UserGroup[u] = "USER"
    THEN (IF u \in carts THEN u ELSE 0)
    ELSE (IF target \in carts \cup {u} THEN target ELSE 0)

\* cart_add_item before the insert: what it raises, or "insert"
CartAddResult(u, m, target) ==
    IF m \notin DOMAIN catalog THEN "MovieNotFound"
    ELSE IF ResolvedCart(u, target) = 0 THEN "AttributeError"
    ELSE IF \/ m \in CartMovies(ResolvedCart(u, target))
            \/ m \in PurchasedMovieIds(u, ResolvedCart(u, target))
         THEN "AlreadyInCartOrPurchased"
         ELSE "insert"

\* cart_items without its UniqueConstraint
CartItemInsertNoUnique(c, m) ==
    /\ c \in carts
    /\ m \in DOMAIN catalog

\* UniqueConstraint("cart_id", "movie_id") and the foreign keys of cart_items
CartItemInsertAllowed(c, m) ==
    /\ cartItems[<<c, m>>] = 0
    /\ c \in carts
    /\ m \in DOMAIN catalog

CartAddInsertResult(c, m) ==
    IF CartItemInsertAllowed(c, m) THEN "ok" ELSE "IntegrityError"

CartAddBegin(s, u, m, target) ==
    /\ inflight[s] = Idle
    \* cart.py:31-35: the new Cart is committed whatever follows
    /\ carts' = IF m \in DOMAIN catalog THEN carts \cup {u} ELSE carts
    /\ inflight' = IF CartAddResult(u, m, target) = "insert"
                   THEN [inflight EXCEPT ![s] =
                            [kind |-> "add", user |-> u, movie |-> m,
                             cart |-> ResolvedCart(u, target)]]
                   ELSE inflight
    /\ UNCHANGED <<catalog, cartItems, orders, nextOrderId, orderItems,
                   nextItemId, payments, paymentItems, processed>>

\* cart.py:79-83, and 85-87 when the commit raises
CartAddInsert(s) ==
    /\ inflight[s].kind = "add"
    /\ cartItems' =
         IF CartAddInsertResult(inflight[s].cart, inflight[s].movie) = "ok"
         THEN [cartItems EXCEPT ![<<inflight[s].cart, inflight[s].movie>>] = @ + 1]
         ELSE cartItems
    /\ inflight' = [inflight EXCEPT ![s] = Idle]
    /\ UNCHANGED <<catalog, carts, orders, nextOrderId, orderItems,
                   nextItemId, payments, paymentItems, processed>>

CartRemoveResult(u, m, target) ==
    LET c == IF target = 0 THEN u ELSE target
    IN  IF m \notin DOMAIN catalog THEN "MovieNotFound"
        ELSE IF target # 0 /\ UserGroup[u] = "USER" THEN "PermissionDenied"
        ELSE IF c \notin carts \/ cartItems[<<c, m>>] = 0 THEN "SomethingWentWrong"
        ELSE IF cartItems[<<c, m>>] > 1 THEN "MultipleResultsFound"
        ELSE "ok"

CartRemoveItem(u, m, target) ==
    /\ cartItems' =
         IF CartRemoveResult(u, m, target) = "ok"
         THEN [cartItems EXCEPT ![<<IF target = 0 THEN u ELSE target, m>>] = 0]
         ELSE cartItems
    /\ UNCHANGED <<catalog, carts, orders, nextOrderId, orderItems,
                   nextItemId, payments, paymentItems, processed, inflight>>

\* ----------------------------------------------------------- Catalog Store
DeleteMovieResult(u, m) ==
    IF UserGroup[u] = "USER" THEN "PermissionDenied"
    ELSE IF m \notin DOMAIN catalog THEN "MovieNotFound"
    ELSE IF \E c \in Users : cartItems[<<c, m>>] > 0 THEN "in_cart"
    ELSE "ok"

DeleteMovie(u, m) ==
    /\ catalog' = IF DeleteMovieResult(u, m) = "ok"
                  THEN [x \in DOMAIN catalog \ {m} |-> catalog[x]]
                  ELSE catalog
    /\ UNCHANGED <<carts, cartItems, orders, nextOrderId, orderItems,
                   nextItemId, payments, paymentItems, processed, inflight>>

UpdateMovieResult(u, m) ==
    IF UserGroup[u] = "USER" THEN "PermissionDenied"
    ELSE IF m \notin DOMAIN catalog THEN "MovieNotFound"
    ELSE "ok"

\* an update that also rewrites the price kept in the order items of the movie
UpdateMovieRepricing(u, m, price) ==
    /\ catalog' = IF UpdateMovieResult(u, m) = "ok"
                  THEN [catalog EXCEPT ![m] = price]
                  ELSE catalog
    /\ orderItems' = IF UpdateMovieResult(u, m) = "ok"
                     THEN {[i EXCEPT !.price = IF i.movie = m THEN price ELSE @] :
                              i \in orderItems}
                     ELSE orderItems
    /\ UNCHANGED <<carts, cartItems, orders, nextOrderId,
                   nextItemId, payments, paymentItems, processed, inflight>>

UpdateMovie(u, m, price) ==
    /\ catalog' = IF UpdateMovieResult(u, m) = "ok"
                  THEN [catalog EXCEPT ![m] = price]
                  ELSE catalog
    /\ UNCHANGED <<carts, cartItems, orders, nextOrderId, orderItems,
                   nextItemId, payments, paymentItems, processed, inflight>>

\* ----------------------------------------------------------- Order Builder
\* the cart items of the user joined with their movies
PricedCartRows(u) ==
    {[movie |-> r[1], k |-> r[2], price |-> catalog[r[1]]] :
        r \in {x \in CartRows(u) : u \in carts /\ x[1] \in DOMAIN catalog}}

\* order.py:99-105 and 117
CartTotal(u) == SumPrice(PricedCartRows(u))

\* order.py:106-116
SelectedItems(u) ==
    {r \in PricedCartRows(u) :
        r.movie \notin PaidByOrder(u) /\ r.movie \notin PaidByPayment}

NewOrder(u) == [user |-> u, status |-> "PENDING", total |-> CartTotal(u)]

\* order.py:119-125: the Order row is committed before its items exist
CreateOrderBegin(s, u) ==
    /\ inflight[s] = Idle
    /\ nextOrderId <= MaxOrders
    /\ orders' = [o \in DOMAIN orders \cup {nextOrderId} |->
                    IF o = nextOrderId THEN NewOrder(u) ELSE orders[o]]
    /\ nextOrderId' = nextOrderId + 1
    /\ inflight' = IF SelectedItems(u) = {}
                   THEN inflight
                   ELSE [inflight EXCEPT ![s] =
                            [kind |-> "order", order |-> nextOrderId,
                             items |-> SelectedItems(u)]]
    /\ UNCHANGED <<catalog, carts, cartItems, orderItems, nextItemId,
                   payments, paymentItems, processed>>

\* order.py:138-140: what a rollback after the first commit leaves of the
\* order row
OrdersAfterRollback(oid) == orders

\* the commit of order.py:135 raises: on its own (fail), or because a row
\* that order_items.order_id or order_items.movie_id refers to is gone
CreateOrderFinishResult(s, fail) ==
    IF \/ fail
       \/ inflight[s].order \notin DOMAIN orders
       \/ \E it \in inflight[s].items : it.movie \notin DOMAIN catalog
    THEN "error" ELSE "ok"

\* order.py:127-137, and 138-140 when the commit raises
CreateOrderFinish(s, fail) ==
    /\ inflight[s].kind = "order"
    /\ LET r == inflight[s]
           n == Cardinality(r.items)
       IN  IF CreateOrderFinishResult(s, fail) = "error"
           THEN /\ orders' = OrdersAfterRollback(r.order)
                /\ UNCHANGED <<orderItems, nextItemId>>
           ELSE /\ \E f \in [r.items -> nextItemId..(nextItemId + n - 1)] :
                      /\ \A a, b \in r.items : a # b => f[a] # f[b]
                      /\ orderItems' = orderItems \cup
                           {[id |-> f[it], order |-> r.order, movie |-> it.movie,
                             price |-> it.price] : it \in r.items}
                /\ nextItemId' = nextItemId + n
                /\ orders' = orders
    /\ inflight' = [inflight EXCEPT ![s] = Idle]
    /\ UNCHANGED <<catalog, carts, cartItems, nextOrderId,
                   payments, paymentItems, processed>>

OrderConfirmResult(u, oid) ==
    IF oid \in DOMAIN orders /\ orders[oid].user = u
    THEN "redirect_to_stripe_url" ELSE "OrderDoesNotExist"

OrderConfirm(u, oid) ==
    /\ OrderConfirmResult(u, oid) \in {"redirect_to_stripe_url", "OrderDoesNotExist"}
    /\ UNCHANGED vars

OrderRefuseResult(u, oid) ==
    IF oid \notin DOMAIN orders \/ orders[oid].user # u THEN "OrderDoesNotExist"
    \* payments.order_id has no ON DELETE: the delete is rolled back
    ELSE IF \E p \in payments : p.order = oid THEN "IntegrityError"
    ELSE "ok"

OrderRefuse(u, oid) ==
    /\ IF OrderRefuseResult(u, oid) = "ok"
       THEN /\ orders' = [o \in DOMAIN orders \ {oid} |-> orders[o]]
            /\ orderItems' = orderItems \ ItemsOf(oid)
       ELSE UNCHANGED <<orders, orderItems>>
    /\ UNCHANGED <<catalog, carts, cartItems, nextOrderId, nextItemId,
                   payments, paymentItems, processed, inflight>>

\* ------------------------------------------------------ Payment Reconciler
Recognized(e) == Events[e].type \in {chk_cmpltd, pmt_faild, rfnded}

NewPaymentStatus(type) ==
    IF type = chk_cmpltd THEN "SUCCESSFUL"
    ELSE IF type = pmt_faild THEN "CANCELED" ELSE "REFUNDED"

NewOrderStatus(type) ==
    IF type = chk_cmpltd THEN "PAID" ELSE "CANCELED"

\* payment.py:56-58 and 72-77: user_profile_id is read from
\* metadata["order_id"]
NewPayment(e) ==
    [id |-> Cardinality(payments) + 1, user |-> Events[e].order,
     order |-> Events[e].order, status |-> NewPaymentStatus(Events[e].type),
     amount |-> Events[e].amount, ext |-> e]

\* a handler that calls db.add(new_payment_obj)
SessionNewAdded(p) == {p}

\* The objects the commit of payment.py:91 inserts: new_payment_obj is
\* never passed to db.add, the session holds no new object.
SessionNew(p) == {}

\* construct_event raised (payment.py:35-44), or the type is not one of the
\* three (payment.py:50-52): nothing is read or written
WebhookRejected(kind) ==
    /\ kind \in {"InvalidSignature", "InvalidPayload"}
    /\ UNCHANGED vars

WebhookIgnored(e) ==
    /\ ~Recognized(e)
    /\ UNCHANGED vars

\* payment.py:54-89 for an order that is not there: order.status = ... on None
WebhookBeginResult(e) ==
    IF Events[e].order \in DOMAIN orders THEN "loaded" ELSE "AttributeError"

WebhookBegin(s, e) ==
    /\ inflight[s] = Idle
    /\ Recognized(e)
    /\ IF WebhookBeginResult(e) = "loaded"
       THEN /\ inflight' = [inflight EXCEPT ![s] =
                   [kind |-> "webhook", event |-> e,
                    loaded |-> orders[Events[e].order].status,
                    items |-> {i.id : i \in ItemsOf(Events[e].order)}]]
            /\ processed' = processed
       ELSE /\ inflight' = inflight
            /\ processed' = processed
    /\ UNCHANGED <<catalog, carts, cartItems, orders, nextOrderId, orderItems,
                   nextItemId, payments, paymentItems>>

\* payment.py:91-102: the response.  The commit fails when the order row is
\* gone; db.refresh(new_payment_obj) needs a persistent object; item.id is
\* read from the ids selected at payment.py:61.
WebhookCommitResult(s) ==
    IF Events[inflight[s].event].order \notin DOMAIN orders THEN "StaleDataError"
    ELSE IF SessionNew(NewPayment(inflight[s].event)) = {} THEN "InvalidRequestError"
    ELSE IF inflight[s].items # {} THEN "AttributeError"
    ELSE "ok"

WebhookCommit(s) ==
    /\ inflight[s].kind = "webhook"
    /\ LET e == inflight[s].event
           oid == Events[e].order
           st == NewOrderStatus(Events[e].type)
       IN  IF WebhookCommitResult(s) = "StaleDataError"
           THEN UNCHANGED <<orders, payments>>
           \* the UPDATE is issued when the attribute differs from what was loaded
           ELSE /\ orders' = IF st # inflight[s].loaded
                             THEN [orders EXCEPT ![oid].status = st]
                             ELSE orders
                /\ payments' = payments \cup SessionNew(NewPayment(e))
    /\ processed' = IF WebhookCommitResult(s) = "StaleDataError"
                    THEN processed
                    ELSE processed \cup {inflight[s].event}
    /\ inflight' = [inflight EXCEPT ![s] = Idle]
    /\ UNCHANGED <<catalog, carts, cartItems, nextOrderId, orderItems,
                   nextItemId, paymentItems>>

\* payment.py:120-124
SettledItemIds ==
    {pi.item : pi \in {q \in paymentItems :
        \E p \in payments : p.id = q.payment /\ p.status = "SUCCESSFUL"}}

\* the join without the filter on orders that have a successful payment
CheckoutRowsAnyOrder(oid) ==
    {i \in ItemsOf(oid) : /\ oid \in DOMAIN orders
                          /\ i.id \notin SettledItemIds}

\* payment.py:111-131: the rows of the join of the order with its items
CheckoutRows(oid) ==
    {i \in ItemsOf(oid) : /\ oid \in DOMAIN orders
                          /\ oid \notin SuccessfulOrders
                          /\ i.id \notin SettledItemIds}

OrderMoviesIds(oid) == {i.movie : i \in ItemsOf(oid)}

\* payment.py:153: the two id lists differ
MoviesMismatch(oid) ==
    \/ OrderMoviesIds(oid) \cap DOMAIN catalog # OrderMoviesIds(oid)
    \/ Cardinality(ItemsOf(oid)) # Cardinality(OrderMoviesIds(oid))

\* payment.py:154
OuterIds(oid) == OrderMoviesIds(oid) \ DOMAIN catalog

\* stripe_checkout_session: what it raises.  scalar_one_or_none() raises on
\* more than one joined row; db.refresh(order.order_items) is given a list;
\* PaymentItem.order_item.movie_id (payment.py:177) is no attribute.
CheckoutResult(u, oid) ==
    IF CheckoutRows(oid) = {} THEN "OrderDoesNotExist"
    ELSE IF Cardinality(CheckoutRows(oid)) > 1 THEN "MultipleResultsFound"
    ELSE IF MoviesMismatch(oid) THEN "UnmappedInstanceError"
    ELSE "AttributeError"

\* payment.py:155-159: delete(OrderItem).filter(OrderItem.id.in_(outer_ids)),
\* committed before db.refresh raises; on every other path nothing is written
CheckoutItemsAfter(u, oid) ==
    IF CheckoutResult(u, oid) = "UnmappedInstanceError"
    THEN {i \in orderItems : i.id \notin OuterIds(oid)}
    ELSE orderItems

\* a handler that marks the order it gave up on as canceled
CheckoutOrdersAfterCancel(u, oid) ==
    IF oid \in DOMAIN orders
    THEN [orders EXCEPT ![oid].status = "CANCELED"]
    ELSE orders

\* payment.py:221-226: the recompute of total_amount comes after the
\* statement that raises on every path; the orders table is not written
CheckoutOrdersAfter(u, oid) == orders

StripeCheckoutSession(u, oid) ==
    /\ orderItems' = CheckoutItemsAfter(u, oid)
    /\ orders' = CheckoutOrdersAfter(u, oid)
    /\ UNCHANGED <<catalog, carts, cartItems, nextOrderId, nextItemId,
                   payments, paymentItems, processed, inflight>>

\* ------------------------------------------------------------- Cart reads
\* cart.py:150-168 inside Cart.cart_items.any(...): an item whose movie is in
\* neither subquery
NotPaidItem(u, m) == m \notin PaidByOrder(u) /\ m \notin PaidByPayment

\* cart.py:231-249 inside Cart.cart_items.any(...): an item whose movie is in
\* both subqueries
PaidItem(u, m) == m \in PaidByOrder(u) /\ m \in PaidByPayment

\* cart.py:179-223: the Cart is selected when one of its items passes the
\* filter, and cart.cart_items is the whole collection; cart.id of None raises
CartItemsListResult(u) ==
    IF u \in carts /\ \E m \in CartMovies(u) : NotPaidItem(u, m)
    THEN [kind |-> "ok", items |-> CartMovies(u)]
    ELSE [kind |-> "AttributeError", items |-> {}]

CartItemsList(u) ==
    /\ CartItemsListResult(u).kind \in {"ok", "AttributeError"}
    /\ UNCHANGED vars

\* cart.py:260-289
CartPurchasedItemsResult(u) ==
    IF u \in carts /\ \E m \in CartMovies(u) : PaidItem(u, m)
    THEN [kind |-> "ok", items |-> CartMovies(u)]
    ELSE [kind |-> "AttributeError", items |-> {}]

CartPurchasedItems(u) ==
    /\ CartPurchasedItemsResult(u).kind \in {"ok", "AttributeError"}
    /\ UNCHANGED vars

\* ------------------------------------------------------------------ claims
\* the orders whose create_order is still between its two commits
InFlightOrders ==
    {inflight[s].order : s \in {t \in Slots : inflight[t].kind = "order"}}

\* C1: in every reachable state, every Order that no create_order is still
\* building has total_amount equal to the sum of price_at_order over its
\* OrderItems.
C1_TotalIsSumOfItems ==
    \A o \in DOMAIN orders \ InFlightOrders :
        orders[o].total = SumPrice(ItemsOf(o))

\* C2: a delivery of an event that was already processed changes neither
\* Order.status nor any row of the ledger.
C2_RedeliveryIsNoOp ==
    [][\A s \in Slots :
          (WebhookCommit(s) /\ inflight[s].event \in processed)
              => /\ orders' = orders
                 /\ payments' = payments
                 /\ paymentItems' = paymentItems]_vars

PaidOrdersWith(u, m) ==
    {o \in DOMAIN orders : /\ orders[o].user = u
                           /\ orders[o].status = "PAID"
                           /\ \E i \in ItemsOf(o) : i.movie = m}

SuccessfulPaymentsWith(u, m) ==
    {p \in payments : /\ p.status = "SUCCESSFUL"
                      /\ p.order \in DOMAIN orders
                      /\ orders[p.order].user = u
                      /\ \E i \in ItemsOf(p.order) : i.movie = m}

\* C3: for every user and movie there is at most one paid Order of the user
\* that contains the movie, and at most one successful Payment that covers
\* an OrderItem for it.
C3_NoDoubleOwnership ==
    \A u \in Users, m \in Movies :
        /\ Cardinality(PaidOrdersWith(u, m)) <= 1
        /\ Cardinality(SuccessfulPaymentsWith(u, m)) <= 1

\* C4: when the insert of the OrderItems fails, the Order row of that call
\* does not persist.
C4_CreateOrderAtomic ==
    [][\A s \in Slots :
          CreateOrderFinish(s, TRUE) => inflight[s].order \notin DOMAIN orders']_vars

\* C5: when two deliveries of the same event are in flight together and one
\* of them commits, at most one Payment carries the event id and the other
\* delivery ends as an acknowledged no-op, not as an error.
C5_ConcurrentDeliveries ==
    [][\A s, t \in Slots :
          (/\ s # t
           /\ inflight[s].kind = "webhook"
           /\ inflight[t].kind = "webhook"
           /\ inflight[s].event = inflight[t].event
           /\ WebhookCommit(s))
              => /\ Cardinality({p \in payments' : p.ext = inflight[t].event}) <= 1
                 /\ WebhookCommitResult(t)' = "ok"]_vars

\* C6: no (cart, movie) pair ever has more than one CartItem, and a
\* cart_add_item that passed its pre-check while another one inserted the
\* same pair fails at its insert.
C6_OneCartItemPerPair ==
    /\ \A c \in Users, m \in Movies : cartItems[<<c, m>>] <= 1
    /\ \A s \in Slots :
          (inflight[s].kind = "add"
              /\ cartItems[<<inflight[s].cart, inflight[s].movie>>] > 0)
          => CartAddInsertResult(inflight[s].cart, inflight[s].movie)
                 = "IntegrityError"

\* a cart_add_item is past its pre-check and the pair it is about to insert
\* has been inserted by another request in the meantime
C6_Witness ==
    \E s \in Slots :
        /\ inflight[s].kind = "add"
        /\ cartItems[<<inflight[s].cart, inflight[s].movie>>] = 1

InPaidOrder(u) == {m \in Movies : PaidOrdersWith(u, m) # {}}

\* C8: cart_add_item raises the already-in-cart-or-purchased error exactly
\* when the movie is a CartItem of the resolved cart or is in a paid Order
\* of the owner of that cart; otherwise it goes on to insert.
C8_AddRejectsOwned ==
    \A u \in Users, m \in DOMAIN catalog, t \in {0} \cup Users :
        ResolvedCart(u, t) # 0 =>
            ((m \in CartMovies(ResolvedCart(u, t))
                 \/ m \in InPaidOrder(ResolvedCart(u, t)))
             <=> CartAddResult(u, m, t) = "AlreadyInCartOrPurchased")

ExpectedPaymentStatus(type) ==
    CASE type = chk_cmpltd -> "SUCCESSFUL"
      [] type = pmt_faild  -> "CANCELED"
      [] type = rfnded     -> "REFUNDED"

ExpectedOrderStatus(type) ==
    CASE type = chk_cmpltd -> "PAID"
      [] type = pmt_faild  -> "CANCELED"
      [] type = rfnded     -> "CANCELED"

\* C9: the commit for a not-yet-processed event that names an existing Order
\* adds exactly one Payment, for that Order, with the event id and the
\* mapped status, and sets Order.status to the mapped status.
C9_NewEventAddsPayment ==
    [][\A s \in Slots :
          (/\ WebhookCommit(s)
           /\ inflight[s].event \notin processed
           /\ Events[inflight[s].event].order \in DOMAIN orders)
              => LET e == inflight[s].event
                 IN  /\ \E p \in payments' :
                           /\ payments' = payments \cup {p}
                           /\ p \notin payments
                           /\ p.order = Events[e].order
                           /\ p.ext = e
                           /\ p.status = ExpectedPaymentStatus(Events[e].type)
                     /\ orders'[Events[e].order].status
                            = ExpectedOrderStatus(Events[e].type)]_vars

\* C10: the commit for a charge-refunded event, for an Order for which a
\* checkout-completed event was processed before, adds a refunded Payment
\* next to the successful one, sets Order.status to canceled and leaves
\* every earlier ledger row as it was.
C10_RefundAppends ==
    [][\A s \in Slots :
          (/\ WebhookCommit(s)
           /\ Events[inflight[s].event].type = rfnded
           /\ Events[inflight[s].event].order \in DOMAIN orders
           /\ \E e2 \in processed : /\ Events[e2].type = chk_cmpltd
                                    /\ Events[e2].order = Events[inflight[s].event].order)
              => LET o == Events[inflight[s].event].order
                 IN  /\ \E p1 \in payments, p2 \in payments' \ payments :
                           /\ p1.order = o /\ p1.status = "SUCCESSFUL"
                           /\ p2.order = o /\ p2.status = "REFUNDED"
                     /\ orders'[o].status = "CANCELED"
                     /\ payments \subseteq payments'
                     /\ paymentItems \subseteq paymentItems']_vars


\* C11: a recognized event that names an order id for which no Order row
\* exists is answered with OrderNotFound.
C11_MissingOrderIsOrderNotFound ==
    \A e \in EventIds :
        (Recognized(e) /\ Events[e].order \notin DOMAIN orders)
            => WebhookBeginResult(e) = "OrderNotFound"

\* C12: a webhook delivery that ends in an error leaves Order.status and the
\* ledger as they were before the delivery.
C12_WebhookAllOrNothing ==
    [][\A s \in Slots :
          (WebhookCommit(s) /\ WebhookCommitResult(s) # "ok")
              => /\ orders' = orders
                 /\ payments' = payments
                 /\ paymentItems' = paymentItems]_vars

\* C13: create_checkout_session for an Order that has a successful Payment
\* fails with the order-not-found error before anything is written: the
\* tables after the call are the tables before it.
C13_PaidOrderNotResolved ==
    \A u \in Users, oid \in DOMAIN orders :
        oid \in SuccessfulOrders =>
            /\ CheckoutResult(u, oid) = "OrderDoesNotExist"
            /\ CheckoutItemsAfter(u, oid) = orderItems

\* an Order with a successful Payment, with an item that no PaymentItem
\* covers and whose movie has left the catalog: only the filter on the
\* Order keeps the call from pruning it
C13_Witness ==
    \E oid \in DOMAIN orders :
        /\ oid \in SuccessfulOrders
        /\ \E i \in ItemsOf(oid) : i.id \notin SettledItemIds
        /\ MoviesMismatch(oid)

\* the items of an order whose movie is still in the catalog
Survivors(oid) == {i \in ItemsOf(oid) : i.movie \in DOMAIN catalog}

\* C14: create_checkout_session for an Order without a successful Payment,
\* none of whose OrderItems has its movie left in the catalog, fails with
\* EmptyOrder, has pruned those items, and leaves total_amount at 0.
C14_EmptyOrderAfterPruning ==
    \A u \in Users, oid \in DOMAIN orders :
        (/\ orders[oid].user = u
         /\ oid \notin SuccessfulOrders
         /\ ItemsOf(oid) # {}
         /\ Survivors(oid) = {})
            => /\ CheckoutResult(u, oid) = "EmptyOrder"
               /\ {i \in CheckoutItemsAfter(u, oid) : i.order = oid} = {}
               /\ CheckoutOrdersAfter(u, oid)[oid].total = 0

\* the ownership predicate as the specification words it: the movies of the
\* user's Orders that are paid or have a successful Payment
OwnedBy(u) ==
    {i.movie : i \in {j \in orderItems :
        /\ j.order \in DOMAIN orders
        /\ orders[j.order].user = u
        /\ (orders[j.order].status = "PAID" \/ j.order \in SuccessfulOrders)}}

\* the cart rows of the user whose movie the user does not own
UnownedCartRows(u) == {r \in PricedCartRows(u) : r.movie \notin OwnedBy(u)}

\* C16: create_order selects exactly the cart rows whose movie the user does
\* not own, each at the movie's price of that moment, and stores as
\* total_amount the sum of the prices of the selected rows.
C16_OrderOfUnownedItems ==
    [][\A s \in Slots, u \in Users :
          CreateOrderBegin(s, u)
              => /\ orders'[nextOrderId].total = SumPrice(UnownedCartRows(u))
                 /\ IF UnownedCartRows(u) = {}
                    THEN inflight'[s].kind # "order"
                    ELSE /\ inflight'[s].kind = "order"
                         /\ inflight'[s].items = UnownedCartRows(u)]_vars

\* C17: order_refuse deletes pending Orders only: on an Order of the user
\* whose status is paid or canceled it fails.
C17_RefuseOnlyPending ==
    \A u \in Users, oid \in DOMAIN orders :
        (orders[oid].user = u /\ orders[oid].status # "PENDING")
            => OrderRefuseResult(u, oid) # "ok"

\* C18: a call of cart_add_item or cart_remove_item by a base-tier user that
\* names the cart of another user, for a movie of the catalog, is answered
\* with PermissionDenied and goes on to no insert and no delete.
C18_BaseTierForeignCart ==
    [][\A s \in Slots, u \in Users, t \in Users, m \in DOMAIN catalog :
          (UserGroup[u] = "USER" /\ t # u)
              => /\ CartAddBegin(s, u, m, t)
                      => /\ CartAddResult(u, m, t) = "PermissionDenied"
                         /\ inflight' = inflight
                 /\ CartRemoveItem(u, m, t)
                      => /\ CartRemoveResult(u, m, t) = "PermissionDenied"
                         /\ cartItems' = cartItems]_vars

\* C19: cart_add_item and create_order decide ownership alike, by the union
\* predicate: a movie that is not in the user's own cart is refused by
\* cart_add_item exactly when the user owns it, and a movie of the cart is
\* left out by create_order exactly when the user owns it.
C19_OneOwnershipPredicate ==
    \A u \in Users, m \in DOMAIN catalog :
        /\ \A t \in {0} \cup Users :
              (ResolvedCart(u, t) = u /\ m \notin CartMovies(u))
                  => (CartAddResult(u, m, t) = "AlreadyInCartOrPurchased"
                         <=> m \in OwnedBy(u))
        /\ (u \in carts /\ m \in CartMovies(u))
              => (m \notin {r.movie : r \in SelectedItems(u)}
                     <=> m \in OwnedBy(u))

\* C20: every CartItem of a user is returned by exactly one of
\* cart_items_list and cart_purchased_items, by cart_purchased_items exactly
\* when the user owns its movie.
C20_ListsPartitionCart ==
    \A u \in carts : \A m \in CartMovies(u) :
        /\ m \in CartItemsListResult(u).items
              <=> m \notin CartPurchasedItemsResult(u).items
        /\ m \in CartPurchasedItemsResult(u).items <=> m \in OwnedBy(u)

\* C21: an Order row appears with status pending, and a step that is not the
\* commit of a webhook delivery (cart operations, create_order,
\* order_confirm, order_refuse, create_checkout_session, catalog changes)
\* leaves the status of every Order it keeps as it was.
C21_OnlyWebhookChangesStatus ==
    [][/\ \A o \in DOMAIN orders' \ DOMAIN orders :
             orders'[o].status = "PENDING"
       /\ (~ \E s \in Slots : WebhookCommit(s))
             => \A o \in DOMAIN orders \cap DOMAIN orders' :
                    orders'[o].status = orders[o].status]_vars

\* the only Order ever created is still there, still pending, and the one
\* OrderItem it was given has been pruned by create_checkout_session
C21_Witness ==
    /\ nextOrderId = 2
    /\ 1 \in DOMAIN orders
    /\ orders[1].status = "PENDING"
    /\ nextItemId = 2
    /\ orderItems = {}

\* C22: an OrderItem that is kept by a step keeps its price_at_order (and its
\* order and movie): a catalog price change, the pruning of
\* create_checkout_session and a webhook delivery never rewrite it.
C22_PriceAtOrderImmutable ==
    [][\A i \in orderItems, j \in orderItems' :
          j.id = i.id => j = i]_vars

\* an OrderItem whose movie has changed its catalog price since the Order was
\* built, in an Order for which a webhook delivery was committed
C22_Witness ==
    \E i \in orderItems :
        /\ i.movie \in DOMAIN catalog
        /\ catalog[i.movie] # i.price
        /\ \E e \in processed : Events[e].order = i.order

\* C23: the commit for a not-yet-processed event that names an existing
\* Order adds exactly one PaymentItem for every OrderItem of the Order and
\* no other, each with the id of the Payment added for the event and with
\* the catalog price of the item's movie at that moment.
C23_PaymentItemPerOrderItem ==
    [][\A s \in Slots :
          (/\ WebhookCommit(s)
           /\ inflight[s].event \notin processed
           /\ Events[inflight[s].event].order \in DOMAIN orders)
              => LET e   == inflight[s].event
                     its == ItemsOf(Events[e].order)
                     new == paymentItems' \ paymentItems
                 IN  /\ \A i \in its :
                           Cardinality({q \in new : q.item = i.id}) = 1
                     /\ \A q \in new :
                           /\ \E p \in payments' \ payments :
                                 p.id = q.payment /\ p.ext = e
                           /\ \E i \in its :
                                 /\ i.id = q.item
                                 /\ i.movie \in DOMAIN catalog
                                      => q.price = catalog[i.movie]]_vars

\* C24: create_checkout_session, called by the owner for an Order without a
\* successful Payment of which some OrderItems have lost their movie,
\* deletes exactly those OrderItems and leaves total_amount equal to the sum
\* of price_at_order over the surviving ones.
C24_PruneStaleAndRecompute ==
    \A u \in Users, oid \in DOMAIN orders :
        (/\ orders[oid].user = u
         /\ oid \notin SuccessfulOrders
         /\ ItemsOf(oid) # Survivors(oid))
            => /\ CheckoutItemsAfter(u, oid)
                     = orderItems \ (ItemsOf(oid) \ Survivors(oid))
               /\ CheckoutOrdersAfter(u, oid)[oid].total
                     = SumPrice(Survivors(oid))

\* the OrderItems of an Order whose movie the user has bought through
\* another Order of theirs, one with a successful Payment
BoughtElsewhere(u, oid) ==
    {i \in ItemsOf(oid) :
        \E o2 \in DOMAIN orders \ {oid} :
            /\ orders[o2].user = u
            /\ o2 \in SuccessfulOrders
            /\ \E j \in ItemsOf(o2) : j.movie = i.movie}

C26_PaymentUserFromMetadata ==
    \A e \in EventIds :
        (Recognized(e) /\ Events[e].order \in DOMAIN orders)
            => /\ NewPayment(e).user = Events[e].user
               /\ NewPayment(e).user = orders[Events[e].order].user

C28_CheckoutOwnOrderOnly ==
    \A u \in Users, oid \in DOMAIN orders :
        orders[oid].user # u
            => /\ CheckoutResult(u, oid) = "OrderDoesNotExist"
               /\ CheckoutItemsAfter(u, oid) = orderItems

\* C29: create_checkout_session(order_id) deletes OrderItems of that Order
\* only: every OrderItem of another Order is still there after the call.
C29_PruneOwnItemsOnly ==
    \A u \in Users, oid \in DOMAIN orders :
        \A i \in orderItems :
            i.order # oid => i \in CheckoutItemsAfter(u, oid)

\* C30: in every reachable state an Order with status paid is referenced by
\* a successful Payment row, and an Order whose status is not pending is
\* referenced by at least one Payment row.
C30_StatusMatchesLedger ==
    \A o \in DOMAIN orders :
        /\ orders[o].status = "PAID" => o \in SuccessfulOrders
        /\ orders[o].status # "PENDING" => \E p \in payments : p.order = o

\* ---------------------------------------------------------- specifications
\* Requests one after the other; a request that commits twice may be
\* overtaken between its commits.  One shopper, one movie on sale, the
\* administrator keeps the catalog and may fill the shopper's cart.
Next ==
    \/ \E u \in Users, t \in {0, 1} : CartAddBegin(1, u, 1, t)
    \/ CartAddInsert(1)
    \/ \E u \in Users, t \in {0, 1} : CartRemoveItem(u, 1, t)
    \/ \E u \in Users : DeleteMovie(u, 1)
    \/ \E u \in Users, p \in Prices : UpdateMovie(u, 1, p)
    \/ CreateOrderBegin(1, 1)
    \/ \E fail \in BOOLEAN : CreateOrderFinish(1, fail)
    \/ \E oid \in OrderIds : OrderConfirm(1, oid)
    \/ \E oid \in OrderIds : OrderRefuse(1, oid)
    \/ \E kind \in {"InvalidSignature", "InvalidPayload"} : WebhookRejected(kind)
    \/ \E e \in EventIds : WebhookIgnored(e)
    \/ \E e \in EventIds : WebhookBegin(1, e)
    \/ WebhookCommit(1)
    \/ \E oid \in OrderIds : StripeCheckoutSession(1, oid)
    \* the base-tier user names the cart of somebody else
    \/ CartAddBegin(1, 1, 1, 2)
    \/ CartRemoveItem(1, 1, 2)
    \/ CartItemsList(1)
    \/ CartPurchasedItems(1)

Spec == Init /\ [][Next]_vars

\* Two requests at a time: any two handlers interleave at their commits.
NextConc ==
    \/ \E s \in Slots : FreeSlot(s) /\ CartAddBegin(s, 1, 1, 0)
    \/ \E s \in Slots : CartAddInsert(s)
    \/ CartRemoveItem(1, 1, 0)
    \/ DeleteMovie(2, 1)
    \/ \E p \in Prices : UpdateMovie(2, 1, p)
    \/ \E s \in Slots : FreeSlot(s) /\ CreateOrderBegin(s, 1)
    \/ \E s \in Slots, fail \in BOOLEAN : CreateOrderFinish(s, fail)
    \/ \E oid \in OrderIds : OrderConfirm(1, oid)
    \/ \E oid \in OrderIds : OrderRefuse(1, oid)
    \/ WebhookRejected("InvalidSignature")
    \/ WebhookIgnored("evt_6")
    \/ \E s \in Slots, e \in {"evt_1", "evt_4"} : FreeSlot(s) /\ WebhookBegin(s, e)
    \/ \E s \in Slots : WebhookCommit(s)
    \/ \E oid \in OrderIds : StripeCheckoutSession(1, oid)
    \/ CartItemsList(1)
    \/ CartPurchasedItems(1)

SpecConc == Init /\ [][NextConc]_vars

\* The handlers as functions of the tables: the database they start from is
\* drawn from the rows the schema admits for one order of user 1, with and
\* without ledger rows for it, and with or without a second, pending order
\* of the same user for the same movie.
LedgerPayments ==
    {[id |-> 1, user |-> 1, order |-> 1, status |-> "SUCCESSFUL",
      amount |-> 1, ext |-> "evt_1"],
     [id |-> 2, user |-> 1, order |-> 1, status |-> "REFUNDED",
      amount |-> 1, ext |-> "evt_2"]}

InitLedger ==
    /\ catalog = [m \in Movies |-> 1]
    /\ carts = {1}
    /\ cartItems \in {f \in [Users \X Movies -> {0, 1}] :
                          \A m \in Movies : f[<<2, m>>] = 0}
    /\ \E st \in {"PENDING", "PAID", "CANCELED"}, second \in BOOLEAN :
           /\ orders = IF second
                       THEN <<[user |-> 1, status |-> st, total |-> 1],
                              [user |-> 1, status |-> "PENDING", total |-> 1]>>
                       ELSE <<[user |-> 1, status |-> st, total |-> 1]>>
           /\ orderItems = {[id |-> o, order |-> o, movie |-> 1, price |-> 1] :
                                o \in DOMAIN orders}
    /\ nextOrderId = Len(orders) + 1
    /\ nextItemId = Len(orders) + 1
    /\ payments \in SUBSET LedgerPayments
    /\ paymentItems \in SUBSET {[payment |-> p.id, item |-> 1, price |-> 1] :
                                    p \in payments}
    /\ processed = {p.ext : p \in payments}
    /\ inflight = [s \in Slots |-> Idle]

NextLedger ==
    \/ \E m \in Movies : CartAddBegin(1, 1, m, 0)
    \/ CartAddInsert(1)
    \/ \E m \in Movies : CartRemoveItem(1, m, 0)
    \/ CreateOrderBegin(1, 1)
    \/ \E fail \in BOOLEAN : CreateOrderFinish(1, fail)
    \/ \E oid \in OrderIds : OrderRefuse(1, oid)
    \/ \E e \in {"evt_1", "evt_2"} : WebhookBegin(1, e)
    \/ WebhookCommit(1)
    \/ \E oid \in OrderIds : StripeCheckoutSession(1, oid)
    \/ \E m \in Movies : DeleteMovie(2, m)
    \/ CartItemsList(1)
    \/ CartPurchasedItems(1)
    \* the second user shops too, in a cart of their own
    \/ \E m \in Movies : CartAddBegin(1, 2, m, 2)
    \/ CreateOrderBegin(1, 2)
    \/ CartItemsList(2)
    \* and asks for a checkout session of an order that is not theirs
    \/ \E oid \in OrderIds : StripeCheckoutSession(2, oid)

SpecLedger == InitLedger /\ [][NextLedger]_vars

====
